---- MODULE Spec2Model ----
(***************************************************************************)
(* Video-backed, timestamp-synchronised frame retrieval of                 *)
(* lerobot/common/datasets/video_utils.py: decode_video_frames_torchvision *)
(* (seek, scan, nearest-timestamp match, tolerance assertion) and          *)
(* load_from_videos (per-key replacement of frame references by frames).   *)
(*                                                                         *)
(* Time is counted in integer ticks.  A video holds NumFrames frames, the  *)
(* i-th (from 0) with presentation timestamp i * FramePeriod; every        *)
(* KeyInterval-th frame is a key frame.  A frame's pixel content is        *)
(* abstracted to its identity: the video file it belongs to and its index. *)
(* Python's assert statements are taken as enabled (no -O).                *)
(***************************************************************************)
EXTENDS Integers, Sequences, FiniteSets, TLC

\* ------------------------------------------------------------------ bounds
NumFrames == 3
FramePeriod == 2
KeyInterval == 2
MaxTs == 7
MaxLen == 4
MaxTol == 2
MaxRefs == 2
MaxObsSteps == 2
MaxChunk == 3
MaxPredTokens == 3
MaxVqSteps == 2
MaxCalls == 7

\* ------------------------------------------------------------- the videos
\* videos_dir and the relative paths stored in the dataset, as path components
VideosDir == <<"data", "videos">>
StoredPaths == {<<"videos", "episode_0.mp4">>, <<"videos", "episode_1.mp4">>}

\* pathlib's Path.parent and the / operator
Parent(dir) == SubSeq(dir, 1, Len(dir) - 1)
Join(dir, path) == dir \o path

\* the video files on disk
VideoFiles == {Join(Parent(VideosDir), p) : p \in StoredPaths}

FrameIdx == 0 .. (NumFrames - 1)
Pts(i) == i * FramePeriod
IsKeyFrame(i) == i % KeyInterval = 0
Duration == NumFrames * FramePeriod
LastPts == Pts(NumFrames - 1)
InBounds(t) == t >= 0 /\ t <= Duration

Timestamps == 0 .. MaxTs
Tolerances == 1 .. MaxTol
Devices == {"cpu", "cuda", "tpu"}

SetMax(S) == CHOOSE x \in S : \A y \in S : y <= x
SetMin(S) == CHOOSE x \in S : \A y \in S : x <= y
Abs(x) == IF x < 0 THEN 0 - x ELSE x

\* ------------------------------------------------- the reader (pyav backend)
\* reader.seek(t): the decode cursor goes to the key frame at or before t
KeyFrameAtOrAfter(t) ==
    LET later == {i \in FrameIdx : IsKeyFrame(i) /\ Pts(i) >= t}
    IN  IF later = {} THEN NumFrames ELSE SetMin(later)

KeyFrameAtOrBefore(t) ==
    SetMax({i \in FrameIdx : IsKeyFrame(i) /\ Pts(i) <= t})

\* ------------------------------------------------------ the scan and match
\* the loop's break condition
StopScanStrict(current_ts, last_ts) == current_ts > last_ts

StopScan(current_ts, last_ts) == current_ts >= last_ts

\* the difference without its absolute value
DistSigned(q, l) == q - l

\* torch.cdist(..., p=1) on one-dimensional points
Dist(q, l) == Abs(q - l)

\* dist.min(1): the minimum over the loaded frames and the first index reaching it
MinDist(q, lts) == SetMin({Dist(q, lts[j]) : j \in 1 .. Len(lts)})

ArgMinLast(q, lts) ==
    SetMax({j \in 1 .. Len(lts) : Dist(q, lts[j]) = MinDist(q, lts)})

ArgMaxDist(q, lts) ==
    SetMin({j \in 1 .. Len(lts) : \A k \in 1 .. Len(lts) : Dist(q, lts[k]) <= Dist(q, lts[j])})

ArgMin(q, lts) ==
    SetMin({j \in 1 .. Len(lts) : Dist(q, lts[j]) = MinDist(q, lts)})

IsWithinTolInclusive(min_, tol) == min_ <= tol

IsWithinTol(min_, tol) == min_ < tol

\* min_[~is_within_tol]: the distances of the violating requests, in request order
RECURSIVE Masked(_, _, _)
Masked(ts, lts, tol) ==
    IF ts = <<>> THEN <<>>
    ELSE (IF IsWithinTol(MinDist(Head(ts), lts), tol) THEN <<>>
          ELSE <<MinDist(Head(ts), lts)>>) \o Masked(Tail(ts), lts, tol)

\* the values the assertion message interpolates
AssertMessageAllDists(ts, lts, tol) ==
    << [name |-> "min_", value |-> [i \in 1 .. Len(ts) |-> MinDist(ts[i], lts)]],
       [name |-> "tolerance_s", value |-> <<tol>>] >>

AssertMessage(ts, lts, tol) ==
    << [name |-> "min_[~is_within_tol]", value |-> Masked(ts, lts, tol)],
       [name |-> "tolerance_s", value |-> <<tol>>] >>

Frame(path, i) == [path |-> path, idx |-> i]

\* lines 98-124: distances, tolerance assertion, closest frames
Match(ts, lframes, lts, tol) ==
    IF lts = <<>>
    THEN [outcome |-> "IndexError", frames |-> <<>>, err |-> <<>>]
    ELSE IF \A i \in 1 .. Len(ts) : IsWithinTol(MinDist(ts[i], lts), tol)
    THEN [outcome |-> "ok",
          frames |-> [i \in 1 .. Len(ts) |-> lframes[ArgMin(ts[i], lts)]],
          err |-> <<>>]
    ELSE [outcome |-> "AssertionError", frames |-> <<>>,
          err |-> AssertMessage(ts, lts, tol)]

\* the frames a scan loads from cursor position i: every frame up to and including
\* the first one the break condition accepts, or up to the end of the stream
RECURSIVE ScanFrom(_, _)
ScanFrom(i, last) ==
    IF i >= NumFrames THEN <<>>
    ELSE IF StopScan(Pts(i), last) THEN <<i>>
    ELSE <<i>> \o ScanFrom(i + 1, last)

\* lines 78-79: timestamps[0] and timestamps[-1]
FirstRequested(ts) == ts[1]

LastRequestedIsFirst(ts) == ts[1]

LastRequested(ts) == ts[Len(ts)]

\* decode_video_frames_torchvision as a function of its arguments; seekFails is
\* the reader's answer to a seek beyond the end of the stream
DecodeRun(path, ts, tol, dev, seekFails) ==
    IF dev = "cuda"
    THEN [outcome |-> "NotImplementedError", frames |-> <<>>, err |-> <<>>]
    ELSE IF dev # "cpu"
    THEN [outcome |-> "ValueError", frames |-> <<>>, err |-> <<>>]
    ELSE IF ts = <<>>
    THEN [outcome |-> "IndexError", frames |-> <<>>, err |-> <<>>]
    ELSE IF ~InBounds(FirstRequested(ts)) /\ seekFails
    THEN [outcome |-> "SeekError", frames |-> <<>>, err |-> <<>>]
    ELSE LET idx == ScanFrom(KeyFrameAtOrBefore(FirstRequested(ts)), LastRequested(ts))
         IN  Match(ts,
                   [j \in 1 .. Len(idx) |-> Frame(path, idx[j])],
                   [j \in 1 .. Len(idx) |-> Pts(idx[j])],
                   tol)

\* -------------------------------------------------------------------- state
VARIABLES
    pc,             \* position of the running decode_video_frames_torchvision call
    video_path, timestamps, tolerance_s, device,    \* its arguments
    backend,        \* torchvision's process-wide video backend
    reader,         \* the VideoReader: [open, cursor]
    first_ts, last_ts,
    loaded_frames, loaded_ts,
    outcome,        \* "none" while running, "ok", or the exception raised
    closest_frames, \* the returned frames
    err,            \* the values carried by the raised assertion's message
    lpc,            \* position of the running load_from_videos call
    item,           \* the caller's item, mutated in place
    item0,          \* the item as it was when load_from_videos was called
    video_frame_keys, load_tolerance_s,     \* its other arguments
    keyIdx,         \* the for loop's position in video_frame_keys
    lerr,           \* the exception load_from_videos raised, "none" otherwise
    decodeCalls     \* the decode calls it has made: [key, path, timestamps]

decodeVars == <<pc, video_path, timestamps, tolerance_s, device, backend, reader,
                first_ts, last_ts, loaded_frames, loaded_ts, outcome,
                closest_frames, err>>

loadVars == <<lpc, item, item0, video_frame_keys, load_tolerance_s, keyIdx, lerr,
              decodeCalls>>

NoReader == [open |-> FALSE, cursor |-> 0]

\* ------------------------------------------- state of the other operations
VARIABLES
    enc,            \* the running encode_video_frames call
    dirs,           \* the directories that exist on disk
    scn,            \* a decode call on the 30-frame video
    threads,        \* the decode calls running in parallel threads
    policy          \* a VQBeTPolicy: its configuration, queues and RVQ state

EncIdle == [pc |-> "idle", imgs_dir |-> <<>>, video_path |-> <<>>, fps |-> 0,
            dirs0 |-> {}, runs |-> <<>>, returncode |-> 0, outcome |-> "none"]

ScnIdle == [pc |-> "idle", timestamps |-> <<>>, tolerance_s |-> 0, keyint |-> 0,
            result |-> <<>>]

Threads == {1, 2}
ThIdle == [pc |-> "idle", video_path |-> <<>>, timestamps |-> <<>>, tolerance_s |-> 0,
           device |-> "cpu", log_loaded_timestamps |-> FALSE,
           reader |-> [open |-> FALSE, backend |-> "unset", cursor |-> 0],
           first_ts |-> -1, last_ts |-> -1, loaded_frames |-> <<>>, loaded_ts |-> <<>>,
           outcome |-> "none", closest_frames |-> <<>>, err |-> <<>>, log |-> <<>>,
           raced |-> {}]

\* VQBeTPolicy.__init__ (lines 26-60) under configuration cfg, and VqVae.__init__
\* (lines 757-759).  episode, served, invoked and last are the record of the
\* calls: the parity of the number of resets, the successful select_action calls
\* since the last reset, those among them that ran the model, and what the last
\* call did.
NoCall == [op |-> "none", outcome |-> "none"]
ObsKeys == {"observation.image", "observation.state"}
QueueKeys == ObsKeys \cup {"action"}
EmptyQueues == [k \in QueueKeys |-> <<>>]
NewPolicy(cfg) ==
    [config |-> cfg,
     queues |-> EmptyQueues,
     discretized |-> FALSE, optimized_steps |-> 0, freeze_codebook |-> FALSE,
     episode |-> 0, served |-> 0, invoked |-> {}, last |-> NoCall]
DefaultConfig == [n_obs_steps |-> 1, action_chunk_size |-> 1, n_action_pred_token |-> 1,
                  n_vqvae_training_steps |-> 1]

auxVars == <<enc, dirs, scn, threads, policy>>

AuxInit ==
    /\ enc = EncIdle
    /\ dirs = {}
    /\ scn = ScnIdle
    /\ threads = [t \in Threads |-> ThIdle]
    /\ policy = NewPolicy(DefaultConfig)

\* the file direct callers of decode_video_frames_torchvision read
DirectCallFiles == {Join(Parent(VideosDir), <<"videos", "episode_0.mp4">>)}

\* request lists of up to MaxLen timestamps, in any order
RequestLists == UNION {[1 .. n -> Timestamps] : n \in 0 .. MaxLen}

DecodeInit ==
    /\ pc = "idle"
    /\ video_path = <<>>
    /\ timestamps = <<>>
    /\ tolerance_s = 0
    /\ device = "cpu"
    /\ backend = "unset"
    /\ reader = NoReader
    /\ first_ts = -1
    /\ last_ts = -1
    /\ loaded_frames = <<>>
    /\ loaded_ts = <<>>
    /\ outcome = "none"
    /\ closest_frames = <<>>
    /\ err = <<>>

Raise(e) ==
    /\ outcome' = e
    /\ pc' = "done"

\* a caller invokes decode_video_frames_torchvision
DecodeCall ==
    /\ pc = "idle"
    /\ lpc = "idle"
    /\ \E p \in DirectCallFiles, ts \in RequestLists, tol \in Tolerances, dev \in Devices :
        /\ dev # "cpu" => Len(ts) <= 1
        /\ video_path' = p
        /\ timestamps' = ts
        /\ tolerance_s' = tol
        /\ device' = dev
    /\ pc' = "set_backend"
    /\ reader' = NoReader
    /\ first_ts' = -1
    /\ last_ts' = -1
    /\ loaded_frames' = <<>>
    /\ loaded_ts' = <<>>
    /\ outcome' = "none"
    /\ closest_frames' = <<>>
    /\ err' = <<>>
    /\ UNCHANGED backend
    /\ UNCHANGED loadVars
    /\ UNCHANGED auxVars

\* the cuda branch falling back to the software decoder instead of raising
SetBackendCudaFallback ==
    /\ pc = "set_backend"
    /\ IF device \in {"cpu", "cuda"}
       THEN /\ backend' = "pyav"
            /\ pc' = "open"
            /\ UNCHANGED outcome
       ELSE /\ Raise("ValueError")
            /\ UNCHANGED backend
    /\ UNCHANGED <<video_path, timestamps, tolerance_s, device, reader, first_ts,
                   last_ts, loaded_frames, loaded_ts, closest_frames, err>>
    /\ UNCHANGED loadVars
    /\ UNCHANGED auxVars

\* lines 58-70
SetBackend ==
    /\ pc = "set_backend"
    /\ IF device = "cpu"
       THEN /\ backend' = "pyav"
            /\ pc' = "open"
            /\ UNCHANGED outcome
       ELSE /\ Raise(IF device = "cuda" THEN "NotImplementedError" ELSE "ValueError")
            /\ UNCHANGED backend
    /\ UNCHANGED <<video_path, timestamps, tolerance_s, device, reader, first_ts,
                   last_ts, loaded_frames, loaded_ts, closest_frames, err>>
    /\ UNCHANGED loadVars
    /\ UNCHANGED auxVars

\* line 74
OpenReader ==
    /\ pc = "open"
    /\ reader' = [open |-> TRUE, cursor |-> 0]
    /\ pc' = "first_last"
    /\ UNCHANGED <<video_path, timestamps, tolerance_s, device, backend, first_ts,
                   last_ts, loaded_frames, loaded_ts, outcome, closest_frames, err>>
    /\ UNCHANGED loadVars
    /\ UNCHANGED auxVars

\* an empty request list handled as an empty result
ReadFirstLastEmptyOk ==
    /\ pc = "first_last"
    /\ IF timestamps = <<>>
       THEN /\ outcome' = "ok"
            /\ pc' = "done"
            /\ UNCHANGED <<first_ts, last_ts>>
       ELSE /\ first_ts' = FirstRequested(timestamps)
            /\ last_ts' = LastRequested(timestamps)
            /\ pc' = "seek"
            /\ UNCHANGED outcome
    /\ UNCHANGED <<video_path, timestamps, tolerance_s, device, backend, reader,
                   loaded_frames, loaded_ts, closest_frames, err>>
    /\ UNCHANGED loadVars
    /\ UNCHANGED auxVars

\* lines 78-79: timestamps[0] and timestamps[-1]
ReadFirstLast ==
    /\ pc = "first_last"
    /\ IF timestamps = <<>>
       THEN /\ Raise("IndexError")
            /\ UNCHANGED <<first_ts, last_ts>>
       ELSE /\ first_ts' = FirstRequested(timestamps)
            /\ last_ts' = LastRequested(timestamps)
            /\ pc' = "seek"
            /\ UNCHANGED outcome
    /\ UNCHANGED <<video_path, timestamps, tolerance_s, device, backend, reader,
                   loaded_frames, loaded_ts, closest_frames, err>>
    /\ UNCHANGED loadVars
    /\ UNCHANGED auxVars

\* a seek that rewinds to the start of the stream
SeekToStart ==
    /\ pc = "seek"
    /\ reader' = [reader EXCEPT !.cursor = 0]
    /\ pc' = "scan"
    /\ UNCHANGED <<video_path, timestamps, tolerance_s, device, backend, first_ts,
                   last_ts, loaded_frames, loaded_ts, outcome, closest_frames, err>>
    /\ UNCHANGED loadVars
    /\ UNCHANGED auxVars

\* line 84: reader.seek(first_ts).  The reader is torchvision's; within the stream
\* the cursor goes to the key frame at or before first_ts.  Beyond the end of the
\* stream the library either does the same (the last key frame) or refuses
\* (SeekFails): both are outcomes of this step.
Seek ==
    /\ pc = "seek"
    /\ reader' = [reader EXCEPT !.cursor = KeyFrameAtOrBefore(first_ts)]
    /\ pc' = "scan"
    /\ UNCHANGED <<video_path, timestamps, tolerance_s, device, backend, first_ts,
                   last_ts, loaded_frames, loaded_ts, outcome, closest_frames, err>>
    /\ UNCHANGED loadVars
    /\ UNCHANGED auxVars

\* line 84, a seek beyond the end of the stream that the reader refuses
SeekFails ==
    /\ pc = "seek"
    /\ ~InBounds(first_ts)
    /\ Raise("SeekError")
    /\ UNCHANGED <<video_path, timestamps, tolerance_s, device, backend, reader,
                   first_ts, last_ts, loaded_frames, loaded_ts, closest_frames, err>>
    /\ UNCHANGED loadVars
    /\ UNCHANGED auxVars

\* the scan loop with the break tested before the frame is recorded
PullFrameBreakFirst ==
    /\ pc = "scan"
    /\ reader.cursor < NumFrames
    /\ LET current_ts == Pts(reader.cursor)
       IN  IF StopScan(current_ts, last_ts)
           THEN /\ pc' = "match"
                /\ UNCHANGED <<loaded_frames, loaded_ts>>
           ELSE /\ loaded_frames' = Append(loaded_frames, Frame(video_path, reader.cursor))
                /\ loaded_ts' = Append(loaded_ts, current_ts)
                /\ pc' = "scan"
    /\ reader' = [reader EXCEPT !.cursor = reader.cursor + 1]
    /\ UNCHANGED <<video_path, timestamps, tolerance_s, device, backend, first_ts,
                   last_ts, outcome, closest_frames, err>>
    /\ UNCHANGED loadVars
    /\ UNCHANGED auxVars

\* lines 89-96: one iteration of the scan loop
PullFrame ==
    /\ pc = "scan"
    /\ reader.cursor < NumFrames
    /\ LET current_ts == Pts(reader.cursor)
       IN  /\ loaded_frames' = Append(loaded_frames, Frame(video_path, reader.cursor))
           /\ loaded_ts' = Append(loaded_ts, current_ts)
           /\ pc' = IF StopScan(current_ts, last_ts) THEN "match" ELSE "scan"
    /\ reader' = [reader EXCEPT !.cursor = reader.cursor + 1]
    /\ UNCHANGED <<video_path, timestamps, tolerance_s, device, backend, first_ts,
                   last_ts, outcome, closest_frames, err>>
    /\ UNCHANGED loadVars
    /\ UNCHANGED auxVars

\* the end of the stream surfacing as an exception
EndOfStreamRaises ==
    /\ pc = "scan"
    /\ reader.cursor >= NumFrames
    /\ Raise("StopIteration")
    /\ UNCHANGED <<video_path, timestamps, tolerance_s, device, backend, reader,
                   first_ts, last_ts, loaded_frames, loaded_ts, closest_frames, err>>
    /\ UNCHANGED loadVars
    /\ UNCHANGED auxVars

\* line 89: the reader is exhausted and the for loop ends
EndOfStream ==
    /\ pc = "scan"
    /\ reader.cursor >= NumFrames
    /\ pc' = "match"
    /\ UNCHANGED <<video_path, timestamps, tolerance_s, device, backend, reader,
                   first_ts, last_ts, loaded_frames, loaded_ts, outcome,
                   closest_frames, err>>
    /\ UNCHANGED loadVars
    /\ UNCHANGED auxVars

\* the match followed by a close of the reader
MatchFramesClosing ==
    /\ pc = "match"
    /\ LET m == Match(timestamps, loaded_frames, loaded_ts, tolerance_s)
       IN  /\ outcome' = m.outcome
           /\ closest_frames' = m.frames
           /\ err' = m.err
    /\ pc' = "done"
    /\ reader' = [reader EXCEPT !.open = FALSE]
    /\ UNCHANGED <<video_path, timestamps, tolerance_s, device, backend,
                   first_ts, last_ts, loaded_frames, loaded_ts>>
    /\ UNCHANGED loadVars
    /\ UNCHANGED auxVars

\* lines 98-124
MatchFrames ==
    /\ pc = "match"
    /\ LET m == Match(timestamps, loaded_frames, loaded_ts, tolerance_s)
       IN  /\ outcome' = m.outcome
           /\ closest_frames' = m.frames
           /\ err' = m.err
    /\ pc' = "done"
    /\ UNCHANGED <<video_path, timestamps, tolerance_s, device, backend, reader,
                   first_ts, last_ts, loaded_frames, loaded_ts>>
    /\ UNCHANGED loadVars
    /\ UNCHANGED auxVars

\* the call has returned or raised: its frame is discarded, the process-wide
\* backend stays as the call left it
DecodeReturn ==
    /\ pc = "done"
    /\ pc' = "idle"
    /\ video_path' = <<>>
    /\ timestamps' = <<>>
    /\ tolerance_s' = 0
    /\ device' = "cpu"
    /\ reader' = NoReader
    /\ first_ts' = -1
    /\ last_ts' = -1
    /\ loaded_frames' = <<>>
    /\ loaded_ts' = <<>>
    /\ outcome' = "none"
    /\ closest_frames' = <<>>
    /\ err' = <<>>
    /\ UNCHANGED backend
    /\ UNCHANGED loadVars
    /\ UNCHANGED auxVars

\* --------------------------------------------------------- load_from_videos
Keys == {"observation.image", "observation.wrist_image"}
KeyLists == {<<"observation.image", "observation.wrist_image">>,
             <<"observation.wrist_image">>}

\* a {"path", "timestamp"} record of the dataset
ItemTimestamps == {0, 1}
Refs == [path : StoredPaths, timestamp : ItemTimestamps]

\* an item value: one reference, a list of references, or (once decoded) one
\* frame or a stack of frames
ScalarRef(r) == [kind |-> "ref", refs |-> <<r>>, frames |-> <<>>]
RefList(rs) == [kind |-> "list", refs |-> rs, frames |-> <<>>]
OneFrame(f) == [kind |-> "frame", refs |-> <<>>, frames |-> <<f>>]
FrameStack(fs) == [kind |-> "frames", refs |-> <<>>, frames |-> fs]

ItemValues ==
    {ScalarRef(r) : r \in Refs}
        \cup {RefList(rs) : rs \in UNION {[1 .. n -> Refs] : n \in 0 .. MaxRefs}}
Items == [Keys -> ItemValues]

Range(seq) == {seq[i] : i \in 1 .. Len(seq)}

\* line 24: the guard of the NotImplementedError
PathsRejected(paths) == Cardinality(Range(paths)) = 1

\* lines 29 and 36: item[key] = ...
ReplaceKeyInCopy(it, key, val) == it

ReplaceKey(it, key, val) == [it EXCEPT ![key] = val]

LoadInit ==
    /\ lpc = "idle"
    /\ item = <<>>
    /\ item0 = <<>>
    /\ video_frame_keys = <<>>
    /\ load_tolerance_s = 0
    /\ keyIdx = 0
    /\ lerr = "none"
    /\ decodeCalls = <<>>

\* a caller invokes load_from_videos
LoadCall ==
    /\ lpc = "idle"
    /\ pc = "idle"
    /\ \E it \in Items, keys \in KeyLists, tol \in Tolerances :
        /\ item' = it
        /\ item0' = it
        /\ video_frame_keys' = keys
        /\ load_tolerance_s' = tol
    /\ keyIdx' = 1
    /\ lpc' = "loop"
    /\ lerr' = "none"
    /\ decodeCalls' = <<>>
    /\ UNCHANGED decodeVars
    /\ UNCHANGED auxVars

LoadRaise(e) ==
    /\ lpc' = "raised"
    /\ lerr' = e
    /\ UNCHANGED <<item, keyIdx>>

\* the decode call with the results of earlier identical calls reused
LoadDecodeCached(key, path, ts, isList) ==
    /\ decodeCalls' =
          IF \E c \in 1 .. Len(decodeCalls) :
                 decodeCalls[c].path = path /\ decodeCalls[c].timestamps = ts
          THEN decodeCalls
          ELSE Append(decodeCalls, [key |-> key, path |-> path, timestamps |-> ts])
    /\ backend' = "pyav"
    /\ \E seekFails \in BOOLEAN :
        LET r == DecodeRun(path, ts, load_tolerance_s, "cpu", seekFails)
        IN  IF r.outcome = "ok"
            THEN /\ item' = ReplaceKey(item, key,
                                IF isList THEN FrameStack(r.frames)
                                ELSE OneFrame(r.frames[1]))
                 /\ keyIdx' = keyIdx + 1
                 /\ UNCHANGED <<lpc, lerr>>
            ELSE LoadRaise(r.outcome)

\* lines 28 and 35: the call of decode_video_frames_torchvision and what is done
\* with its result
LoadDecode(key, path, ts, isList) ==
    /\ decodeCalls' = Append(decodeCalls, [key |-> key, path |-> path, timestamps |-> ts])
    /\ backend' = "pyav"
    /\ \E seekFails \in BOOLEAN :
        LET r == DecodeRun(path, ts, load_tolerance_s, "cpu", seekFails)
        IN  IF r.outcome = "ok"
            THEN /\ item' = ReplaceKey(item, key,
                                IF isList THEN FrameStack(r.frames)
                                ELSE OneFrame(r.frames[1]))
                 /\ keyIdx' = keyIdx + 1
                 /\ UNCHANGED <<lpc, lerr>>
            ELSE LoadRaise(r.outcome)

\* lines 19-36: one iteration of the loop over video_frame_keys
LoadKey ==
    /\ lpc = "loop"
    /\ keyIdx <= Len(video_frame_keys)
    /\ LET key == video_frame_keys[keyIdx]
           data_dir == Parent(VideosDir)
           refs == item[key].refs
           ts == [i \in 1 .. Len(refs) |-> refs[i].timestamp]
           paths == [i \in 1 .. Len(refs) |-> refs[i].path]
       IN  IF item[key].kind = "list"
           THEN IF PathsRejected(paths)
                THEN /\ LoadRaise("NotImplementedError")
                     /\ UNCHANGED <<decodeCalls, backend>>
                ELSE IF paths = <<>>
                THEN /\ LoadRaise("IndexError")
                     /\ UNCHANGED <<decodeCalls, backend>>
                ELSE LoadDecode(key, Join(data_dir, paths[1]), ts, TRUE)
           ELSE LoadDecode(key, Join(data_dir, paths[1]), ts, FALSE)
    /\ UNCHANGED <<item0, video_frame_keys, load_tolerance_s>>
    /\ UNCHANGED <<pc, video_path, timestamps, tolerance_s, device, reader, first_ts,
                   last_ts, loaded_frames, loaded_ts, outcome, closest_frames, err>>
    /\ UNCHANGED auxVars

\* line 38: return item
LoadReturn ==
    /\ lpc = "loop"
    /\ keyIdx > Len(video_frame_keys)
    /\ lpc' = "returned"
    /\ UNCHANGED <<item, item0, video_frame_keys, load_tolerance_s, keyIdx, lerr,
                   decodeCalls>>
    /\ UNCHANGED decodeVars
    /\ UNCHANGED auxVars

\* the caller has its item or its exception; the call's frame is discarded
LoadDone ==
    /\ lpc \in {"returned", "raised"}
    /\ lpc' = "idle"
    /\ item' = <<>>
    /\ item0' = <<>>
    /\ video_frame_keys' = <<>>
    /\ load_tolerance_s' = 0
    /\ keyIdx' = 0
    /\ lerr' = "none"
    /\ decodeCalls' = <<>>
    /\ UNCHANGED decodeVars
    /\ UNCHANGED auxVars

vars == <<decodeVars, loadVars, auxVars>>

Init == DecodeInit /\ LoadInit /\ AuxInit

Next ==
    \/ DecodeCall
    \/ SetBackend
    \/ OpenReader
    \/ ReadFirstLast
    \/ Seek
    \/ SeekFails
    \/ PullFrame
    \/ EndOfStream
    \/ MatchFrames
    \/ DecodeReturn
    \/ LoadCall
    \/ LoadKey
    \/ LoadReturn
    \/ LoadDone

Spec == Init /\ [][Next]_vars

\* ------------------------------------------------------------------ claims
Ascending(ts) == \A i \in 1 .. Len(ts) - 1 : ts[i] <= ts[i + 1]
MinFirstMaxLast(ts) ==
    \A i \in 1 .. Len(ts) : ts[1] <= ts[i] /\ ts[i] <= ts[Len(ts)]
HasFrameWithin(t, tol) == \E f \in FrameIdx : Dist(t, Pts(f)) < tol

\* the scan loop of the running call is over
ScanEnded == loaded_ts # <<>> /\ pc \in {"match", "done"}

\* the requests of the running call whose nearest loaded frame is not within tolerance
ViolatingTs ==
    SelectSeq(timestamps, LAMBDA t : MinDist(t, loaded_ts) >= tolerance_s)
ViolatingDists ==
    [i \in 1 .. Len(ViolatingTs) |-> MinDist(ViolatingTs[i], loaded_ts)]
Carried == {err[k].value : k \in 1 .. Len(err)}

\* C3: a call that returns gives exactly one frame per request, in request order,
\* each a frame of the requested video at distance < tolerance_s from its request;
\* a call that fails returns no frame at all.
C3_OneFramePerRequestWithinTol ==
    pc = "done" =>
        IF outcome = "ok"
        THEN /\ Len(closest_frames) = Len(timestamps)
             /\ \A i \in 1 .. Len(timestamps) :
                    /\ closest_frames[i].path = video_path
                    /\ closest_frames[i].idx \in FrameIdx
                    /\ Dist(timestamps[i], Pts(closest_frames[i].idx)) < tolerance_s
        ELSE closest_frames = <<>>

C3_Witness ==
    /\ pc = "done" /\ outcome = "ok"
    /\ Len(timestamps) = 3 /\ Ascending(timestamps)
    /\ timestamps[1] < timestamps[3]
    /\ \A i \in 1 .. 3 : InBounds(timestamps[i])
    /\ \E i \in 1 .. 3 : Dist(timestamps[i], Pts(closest_frames[i].idx)) > 0

C5_ErrorCarriesTimestampsAndDistances ==
    (pc = "done" /\ outcome = "AssertionError") =>
        /\ ViolatingTs \in Carried
        /\ ViolatingDists \in Carried

\* C5 amended: the tolerance error carries the distances of exactly the violating
\* requests, in request order, and the tolerance; it carries nothing else (no
\* requested timestamp).
C5_ErrorCarriesViolatingDistances ==
    (pc = "done" /\ outcome = "AssertionError") =>
        /\ Len(err) = 2
        /\ err[1].value = ViolatingDists
        /\ err[2].value = <<tolerance_s>>

C5_Witness ==
    /\ pc = "done" /\ outcome = "AssertionError"
    /\ Len(ViolatingTs) >= 1
    /\ Len(ViolatingTs) < Len(timestamps)
    /\ ViolatingTs \notin Carried

\* C7 as stated: the scan pulls no frame after the first frame with
\* pts >= last_ts, and never ends on a frame with pts < last_ts.
C7_ScanStopsAtFirstFrameAtOrAfterLast ==
    /\ \A j \in 1 .. Len(loaded_ts) - 1 : loaded_ts[j] < last_ts
    /\ ScanEnded => loaded_ts[Len(loaded_ts)] >= last_ts

\* C7 amended: the scan pulls no frame after the first frame with pts >= last_ts,
\* and ends on a frame with pts < last_ts only when the stream has no further
\* frame.
C7_ScanStopsAtFirstFrameAtOrAfterLastOrEnd ==
    /\ \A j \in 1 .. Len(loaded_ts) - 1 : loaded_ts[j] < last_ts
    /\ ScanEnded =>
           \/ loaded_ts[Len(loaded_ts)] >= last_ts
           \/ reader.cursor >= NumFrames

C7_Witness ==
    /\ ScanEnded
    /\ Len(loaded_ts) >= 2
    /\ loaded_ts[Len(loaded_ts)] = last_ts
    /\ reader.cursor < NumFrames

\* C8 as stated: when the scan has ended every request has a loaded frame at or
\* before it and a loaded frame at or after it.
C8_RequestsInsideLoadedWindow ==
    ScanEnded =>
        \A i \in 1 .. Len(timestamps) :
            /\ \E j \in 1 .. Len(loaded_ts) : loaded_ts[j] <= timestamps[i]
            /\ \E j \in 1 .. Len(loaded_ts) : loaded_ts[j] >= timestamps[i]

\* C8 amended: when the scan has ended for a request list whose first element is
\* its smallest and whose last element is its largest, none earlier than the first
\* frame of the stream and none later than the last, every request has a loaded frame at or before it and a
\* loaded frame at or after it.
C8_OrderedRequestsInsideLoadedWindow ==
    (/\ ScanEnded
     /\ MinFirstMaxLast(timestamps)
     /\ timestamps[1] >= Pts(0)
     /\ timestamps[Len(timestamps)] <= LastPts) =>
        \A i \in 1 .. Len(timestamps) :
            /\ \E j \in 1 .. Len(loaded_ts) : loaded_ts[j] <= timestamps[i]
            /\ \E j \in 1 .. Len(loaded_ts) : loaded_ts[j] >= timestamps[i]

C8_Witness ==
    /\ ScanEnded
    /\ Len(timestamps) = 3
    /\ timestamps[1] < timestamps[2] /\ timestamps[2] < timestamps[3]
    /\ timestamps[3] <= LastPts
    /\ loaded_ts[1] < timestamps[1]
    /\ loaded_ts[Len(loaded_ts)] > timestamps[3]

\* the running call's request list sorted ascending, and the outcome of the call
\* on the sorted list
SortedTimestamps == SortSeq(timestamps, LAMBDA a, b : a < b)
SortedRun == DecodeRun(video_path, SortedTimestamps, tolerance_s, "cpu", FALSE)
SortedFrameFor(t) ==
    SortedRun.frames[CHOOSE j \in 1 .. Len(SortedTimestamps) : SortedTimestamps[j] = t]
Supported(ts, tol) ==
    /\ ts # <<>>
    /\ \A i \in 1 .. Len(ts) : InBounds(ts[i]) /\ HasFrameWithin(ts[i], tol)

\* C9 as stated: for any ordering of a request list whose requests each have a
\* stream frame within tolerance_s the call succeeds and returns, for each
\* request, the frame the sorted list gets for it.
C9_ResultIndependentOfOrder ==
    (pc = "done" /\ device = "cpu" /\ Supported(timestamps, tolerance_s)) =>
        /\ outcome = "ok"
        /\ SortedRun.outcome = "ok"
        /\ \A i \in 1 .. Len(timestamps) :
               closest_frames[i] = SortedFrameFor(timestamps[i])

\* C9 amended: for any ordering that keeps the smallest request first and the
\* largest request last, of a request list within stream bounds whose requests
\* each have a stream frame within tolerance_s, the call succeeds and returns,
\* for each request, the frame the sorted list gets for it.
C9_ResultIndependentOfInnerOrder ==
    (/\ pc = "done" /\ device = "cpu"
     /\ Supported(timestamps, tolerance_s)
     /\ MinFirstMaxLast(timestamps)) =>
        /\ outcome = "ok"
        /\ SortedRun.outcome = "ok"
        /\ \A i \in 1 .. Len(timestamps) :
               closest_frames[i] = SortedFrameFor(timestamps[i])

C9_Witness ==
    /\ pc = "done" /\ device = "cpu" /\ outcome = "ok"
    /\ Len(timestamps) = 4
    /\ MinFirstMaxLast(timestamps)
    /\ timestamps[2] > timestamps[3]
    /\ closest_frames[2] # closest_frames[3]
    /\ closest_frames[1] # closest_frames[4]

\* C10 as stated: an empty request list is a no-op that returns an empty result
\* without raising.
C10_EmptyRequestIsNoOp ==
    (pc = "done" /\ device = "cpu" /\ timestamps = <<>>) =>
        /\ outcome = "ok"
        /\ closest_frames = <<>>

\* C10 amended: with an empty request list the call raises IndexError when it
\* reads the first requested timestamp, after the backend was selected and the
\* reader opened and before any seek or frame pull; it returns nothing.
C10_EmptyRequestRaisesIndexError ==
    (pc = "done" /\ device = "cpu" /\ timestamps = <<>>) =>
        /\ outcome = "IndexError"
        /\ closest_frames = <<>>
        /\ backend = "pyav"
        /\ reader = [open |-> TRUE, cursor |-> 0]
        /\ first_ts = -1 /\ last_ts = -1
        /\ loaded_ts = <<>> /\ loaded_frames = <<>>

C10_Witness ==
    /\ pc = "done" /\ device = "cpu" /\ timestamps = <<>>
    /\ outcome = "IndexError"
    /\ reader.open

\* the step-by-step call agrees with DecodeRun
StepwiseAgreesWithDecodeRun ==
    pc = "done" =>
        \E sf \in BOOLEAN :
            DecodeRun(video_path, timestamps, tolerance_s, device, sf)
                = [outcome |-> outcome, frames |-> closest_frames, err |-> err]

\* --------------------------------------------------- claims: load_from_videos
\* the loop has handled position j of video_frame_keys (to the end, or to a raise)
Handled(j) == j < keyIdx \/ (lpc = "raised" /\ j = keyIdx)
MultiPath(v) == v.kind = "list" /\ Cardinality({v.refs[i].path : i \in 1 .. Len(v.refs)}) > 1
SamePath(v) == v.kind = "list" /\ Cardinality({v.refs[i].path : i \in 1 .. Len(v.refs)}) = 1
RefTimestamps(v) == [i \in 1 .. Len(v.refs) |-> v.refs[i].timestamp]
ResolvedPath(ref) == Join(Parent(VideosDir), ref.path)
FrameMatches(f, ref) ==
    /\ f.path = ResolvedPath(ref)
    /\ f.idx \in FrameIdx
    /\ Dist(ref.timestamp, Pts(f.idx)) < load_tolerance_s

\* C1: a list-valued key whose entries do not all share one video path makes
\* load_from_videos raise NotImplementedError at that key, with no decode call
\* made for it.
C1_MultiPathListFailsBeforeDecode ==
    lpc # "idle" =>
        \A j \in 1 .. Len(video_frame_keys) :
            (Handled(j) /\ MultiPath(item0[video_frame_keys[j]])) =>
                /\ lpc = "raised" /\ keyIdx = j
                /\ lerr = "NotImplementedError"
                /\ \A c \in 1 .. Len(decodeCalls) :
                       decodeCalls[c].key # video_frame_keys[j]

\* C2: every handled key keeps its cardinality on supported input: a scalar
\* reference with a frame within tolerance is replaced by that one frame, and an
\* ascending list of N >= 1 references sharing one path, each with a frame within
\* tolerance, is replaced by N frames, the i-th matching the i-th reference.
C2_CardinalityPreserved ==
    lpc # "idle" =>
        \A j \in 1 .. Len(video_frame_keys) :
            LET v0 == item0[video_frame_keys[j]]
                v == item[video_frame_keys[j]]
            IN  (Handled(j) /\ Supported(RefTimestamps(v0), load_tolerance_s)) =>
                    /\ v0.kind = "ref" =>
                           /\ v.kind = "frame"
                           /\ FrameMatches(v.frames[1], v0.refs[1])
                    /\ (SamePath(v0) /\ Ascending(RefTimestamps(v0))) =>
                           /\ v.kind = "frames"
                           /\ Len(v.frames) = Len(v0.refs)
                           /\ \A i \in 1 .. Len(v0.refs) :
                                  FrameMatches(v.frames[i], v0.refs[i])

\* the part of C2 the code satisfies: scalar references
C2_ScalarReplacedByOneFrame ==
    lpc # "idle" =>
        \A j \in 1 .. Len(video_frame_keys) :
            LET v0 == item0[video_frame_keys[j]]
                v == item[video_frame_keys[j]]
            IN  (Handled(j) /\ v0.kind = "ref"
                    /\ Supported(RefTimestamps(v0), load_tolerance_s)) =>
                    /\ v.kind = "frame"
                    /\ FrameMatches(v.frames[1], v0.refs[1])

\* C6 as stated: when load_from_videos raises, the caller's item is as it was
\* before the call.
C6_FailureLeavesItemUntouched ==
    lpc = "raised" => item = item0

\* C6 amended: when load_from_videos (called with distinct keys) raises while
\* processing a key, the keys before it in video_frame_keys have been replaced by
\* decoded frames, and the failing key and every other key are as before the call.
C6_FailureKeepsEarlierKeysReplaced ==
    lpc = "raised" =>
        /\ keyIdx \in 1 .. Len(video_frame_keys)
        /\ \A j \in 1 .. Len(video_frame_keys) :
               IF j < keyIdx
               THEN item[video_frame_keys[j]].kind \in {"frame", "frames"}
               ELSE item[video_frame_keys[j]] = item0[video_frame_keys[j]]
        /\ \A k \in Keys \ Range(video_frame_keys) : item[k] = item0[k]

C6_Witness ==
    /\ lpc = "raised"
    /\ keyIdx = 2
    /\ lerr = "AssertionError"
    /\ item # item0

\* ------------------------------------------------------ encode_video_frames
\* the arguments the calls are drawn from, paths as path components
EncodeVideoPaths == {<<"data", "videos", "episode_0.mp4">>,
                     <<"out", "episode_0.mp4">>,
                     <<"episode_0.mp4">>}
EncodeImgsDirs == {<<"data", "images", "episode_0">>, <<"tmp", "imgs">>}
EncodeFps == {10, 30}
ReturnCodes == {0, 1}

\* a directory and the directories above it, the working directory excluded
Ancestors(dir) == {SubSeq(dir, 1, k) : k \in 1 .. Len(dir)}
AllDirs == UNION {Ancestors(Parent(p)) : p \in EncodeVideoPaths}
\* the directory trees the disk can hold
DirStates == {D \in SUBSET AllDirs : \A d \in D : Ancestors(d) \subseteq D}
DirExists(D, dir) == dir = <<>> \/ dir \in D

\* lines 132-140: the command line
FfmpegCmd(imgs_dir, path, fps) ==
    [program |-> "ffmpeg", r |-> fps, f |-> "image2", loglevel |-> "error",
     i |-> Join(imgs_dir, <<"frame_%06d.png">>), vcodec |-> "libx264",
     pix_fmt |-> "yuv444p", output |-> path]

EncodeCall ==
    /\ enc.pc = "idle"
    /\ \E imgs_dir \in EncodeImgsDirs, path \in EncodeVideoPaths, fps \in EncodeFps :
           enc' = [EncIdle EXCEPT !.pc = "mkdir", !.imgs_dir = imgs_dir,
                                  !.video_path = path, !.fps = fps, !.dirs0 = dirs]
    /\ UNCHANGED <<dirs, decodeVars, loadVars, scn, threads, policy>>

\* mkdir without exist_ok
MkdirNoExistOk ==
    /\ enc.pc = "mkdir"
    /\ IF DirExists(dirs, Parent(enc.video_path))
       THEN /\ enc' = [enc EXCEPT !.pc = "done", !.outcome = "FileExistsError"]
            /\ UNCHANGED dirs
       ELSE /\ dirs' = dirs \cup Ancestors(Parent(enc.video_path))
            /\ enc' = [enc EXCEPT !.pc = "run"]
    /\ UNCHANGED <<decodeVars, loadVars, scn, threads, policy>>

\* line 130: video_path.parent.mkdir(parents=True, exist_ok=True)
Mkdir ==
    /\ enc.pc = "mkdir"
    /\ dirs' = dirs \cup Ancestors(Parent(enc.video_path))
    /\ enc' = [enc EXCEPT !.pc = "run"]
    /\ UNCHANGED <<decodeVars, loadVars, scn, threads, policy>>

\* the encoder run again after a failure
RunEncoderRetrying ==
    /\ enc.pc = "run"
    /\ \E rc \in ReturnCodes :
           enc' = [enc EXCEPT
                     !.runs = Append(@, FfmpegCmd(enc.imgs_dir, enc.video_path, enc.fps)),
                     !.returncode = rc,
                     !.pc = IF rc = 0 \/ Len(enc.runs) >= 1 THEN "done" ELSE "run",
                     !.outcome = IF rc = 0 THEN "ok"
                                 ELSE IF Len(enc.runs) >= 1 THEN "CalledProcessError"
                                 ELSE "none"]
    /\ UNCHANGED <<dirs, decodeVars, loadVars, scn, threads, policy>>

\* line 141: subprocess.run(ffmpeg_cmd.split(" "), check=True)
RunEncoder ==
    /\ enc.pc = "run"
    /\ \E rc \in ReturnCodes :
           enc' = [enc EXCEPT
                     !.runs = Append(@, FfmpegCmd(enc.imgs_dir, enc.video_path, enc.fps)),
                     !.returncode = rc,
                     !.pc = "done",
                     !.outcome = IF rc = 0 THEN "ok" ELSE "CalledProcessError"]
    /\ UNCHANGED <<dirs, decodeVars, loadVars, scn, threads, policy>>

\* the caller has the result or the exception; the directories stay
EncodeDone ==
    /\ enc.pc = "done"
    /\ enc' = EncIdle
    /\ UNCHANGED <<dirs, decodeVars, loadVars, scn, threads, policy>>

EncodeInit ==
    /\ DecodeInit
    /\ LoadInit
    /\ enc = EncIdle
    /\ dirs \in DirStates
    /\ scn = ScnIdle
    /\ threads = [t \in Threads |-> ThIdle]
    /\ policy = NewPolicy(DefaultConfig)

EncodeNext ==
    \/ EncodeCall
    \/ Mkdir
    \/ RunEncoder
    \/ EncodeDone

SpecEncode == EncodeInit /\ [][EncodeNext]_vars

\* --------------------------------------- decode on a video of given shape
\* A video of v.frames frames, v.period ticks apart, a key frame every v.keyint
\* frames: the reader's seek, the scan loop and the call on such a video.
VideoPts(v, i) == i * v.period

VideoKeyFrameAtOrBefore(v, t) ==
    SetMax({i \in 0 .. (v.frames - 1) : i % v.keyint = 0 /\ VideoPts(v, i) <= t})

RECURSIVE VideoScanFrom(_, _, _)
VideoScanFrom(v, i, last) ==
    IF i >= v.frames THEN <<>>
    ELSE IF StopScan(VideoPts(v, i), last) THEN <<i>>
    ELSE <<i>> \o VideoScanFrom(v, i + 1, last)

\* lines 74-124 for a cpu call whose requests lie within the video
VideoDecode(v, path, ts, tol) ==
    LET idx == VideoScanFrom(v, VideoKeyFrameAtOrBefore(v, FirstRequested(ts)),
                             LastRequested(ts))
    IN  Match(ts,
              [j \in 1 .. Len(idx) |-> Frame(path, idx[j])],
              [j \in 1 .. Len(idx) |-> VideoPts(v, idx[j])],
              tol)

\* The 30-frame scenario, in ticks of 1/100 s: 10 frames per second give a frame
\* every 10 ticks (pts 0, 10, .., 290); the requests 0.05 s, 1.55 s, 2.85 s are
\* 5, 155, 285 and the tolerance 0.06 s is 6.
Scenario == [frames |-> 30, period |-> 10, requests |-> <<5, 155, 285>>,
             tolerance |-> 6]
ScenarioPath == <<"data", "videos", "episode_0.mp4">>
ScenarioVideo(keyint) ==
    [frames |-> Scenario.frames, period |-> Scenario.period, keyint |-> keyint]

\* the calls made on that video: the scenario's requests and their non-empty
\* sub-lists, as they are and one tick earlier or later, with the scenario's
\* tolerance and its neighbours, for several key frame spacings
Shifted(ts, d) == [i \in 1 .. Len(ts) |-> ts[i] + d]
SubLists(ts) ==
    {<<ts[1]>>, <<ts[2]>>, <<ts[3]>>, <<ts[1], ts[2]>>, <<ts[1], ts[3]>>,
     <<ts[2], ts[3]>>, ts}
ScenarioRequestLists ==
    UNION {SubLists(Shifted(Scenario.requests, d)) : d \in {-1, 0, 1}}
ScenarioTolerances == {Scenario.tolerance - 1, Scenario.tolerance, Scenario.tolerance + 1}
ScenarioKeyIntervals == {1, 12, 250}

ScenarioCall ==
    /\ scn.pc = "idle"
    /\ \E ts \in ScenarioRequestLists, tol \in ScenarioTolerances,
          keyint \in ScenarioKeyIntervals :
           scn' = [ScnIdle EXCEPT !.pc = "called", !.timestamps = ts,
                                  !.tolerance_s = tol, !.keyint = keyint]
    /\ UNCHANGED <<decodeVars, loadVars, enc, dirs, threads, policy>>

ScenarioDecode ==
    /\ scn.pc = "called"
    /\ scn' = [scn EXCEPT !.pc = "done",
                          !.result = VideoDecode(ScenarioVideo(scn.keyint), ScenarioPath,
                                                 scn.timestamps, scn.tolerance_s)]
    /\ UNCHANGED <<decodeVars, loadVars, enc, dirs, threads, policy>>

ScenarioReturn ==
    /\ scn.pc = "done"
    /\ scn' = ScnIdle
    /\ UNCHANGED <<decodeVars, loadVars, enc, dirs, threads, policy>>

ScenarioNext ==
    \/ ScenarioCall
    \/ ScenarioDecode
    \/ ScenarioReturn

SpecScenario == Init /\ [][ScenarioNext]_vars

\* ------------------------- decode_video_frames_torchvision in parallel threads
\* Each thread runs the function on a reader of its own; the video backend is the
\* one process-wide setting of torchvision.  A thread's frame also keeps what the
\* call logged (log) and the threads that were about to open their reader when
\* this call wrote the backend (raced).
ParRequestLists == {<<0>>, <<1, LastPts>>, <<LastPts, 1>>, <<LastPts, Duration>>}

decodeLocals == <<pc, video_path, timestamps, tolerance_s, device, reader, first_ts,
                  last_ts, loaded_frames, loaded_ts, outcome, closest_frames, err>>
exceptThreads == <<decodeLocals, loadVars, enc, dirs, scn, policy>>

ThCall(t) ==
    /\ threads[t].pc = "idle"
    /\ \E path \in DirectCallFiles, ts \in ParRequestLists, tol \in Tolerances,
          dev \in Devices, log \in BOOLEAN :
           /\ dev # "cpu" => ts = <<0>>
           /\ threads' = [threads EXCEPT ![t] =
                  [ThIdle EXCEPT !.pc = "set_backend", !.video_path = path,
                                 !.timestamps = ts, !.tolerance_s = tol,
                                 !.device = dev, !.log_loaded_timestamps = log]]
    /\ UNCHANGED <<backend, exceptThreads>>

\* the cuda branch selecting its backend before it raises
ThSetBackendCudaSelects(t) ==
    /\ threads[t].pc = "set_backend"
    /\ IF threads[t].device = "cpu"
       THEN /\ backend' = "pyav"
            /\ threads' = [threads EXCEPT ![t].pc = "open",
                              ![t].raced = {b \in Threads \ {t} :
                                               threads[b].pc \in {"set_backend", "open"}}]
       ELSE IF threads[t].device = "cuda"
       THEN /\ backend' = "cuda"
            /\ threads' = [threads EXCEPT ![t].pc = "done",
                                          ![t].outcome = "NotImplementedError"]
       ELSE /\ threads' = [threads EXCEPT ![t].pc = "done", ![t].outcome = "ValueError"]
            /\ UNCHANGED backend
    /\ UNCHANGED exceptThreads

\* lines 58-70
ThSetBackend(t) ==
    /\ threads[t].pc = "set_backend"
    /\ IF threads[t].device = "cpu"
       THEN /\ backend' = "pyav"
            /\ threads' = [threads EXCEPT ![t].pc = "open",
                              ![t].raced = {b \in Threads \ {t} :
                                               threads[b].pc \in {"set_backend", "open"}}]
       ELSE /\ threads' = [threads EXCEPT ![t].pc = "done",
                              ![t].outcome = IF threads[t].device = "cuda"
                                             THEN "NotImplementedError"
                                             ELSE "ValueError"]
            /\ UNCHANGED backend
    /\ UNCHANGED exceptThreads

\* line 74: the reader is built for the backend selected at that moment; only
\* the pyav backend decodes on the cpu
ThOpenReader(t) ==
    /\ threads[t].pc = "open"
    /\ IF backend = "pyav"
       THEN threads' = [threads EXCEPT ![t].pc = "first_last",
                           ![t].reader = [open |-> TRUE, backend |-> backend, cursor |-> 0]]
       ELSE threads' = [threads EXCEPT ![t].pc = "done", ![t].outcome = "RuntimeError"]
    /\ UNCHANGED <<backend, exceptThreads>>

\* lines 78-79
ThReadFirstLast(t) ==
    /\ threads[t].pc = "first_last"
    /\ threads' = [threads EXCEPT ![t].pc = "seek",
                      ![t].first_ts = FirstRequested(threads[t].timestamps),
                      ![t].last_ts = LastRequested(threads[t].timestamps)]
    /\ UNCHANGED <<backend, exceptThreads>>

\* line 84, for a first timestamp within the stream
ThSeek(t) ==
    /\ threads[t].pc = "seek"
    /\ threads' = [threads EXCEPT ![t].pc = "scan",
                      ![t].reader.cursor = KeyFrameAtOrBefore(threads[t].first_ts)]
    /\ UNCHANGED <<backend, exceptThreads>>

\* the scan loop recording frames only while it logs them
ThPullFrameLoggedOnly(t) ==
    /\ threads[t].pc = "scan"
    /\ threads[t].reader.cursor < NumFrames
    /\ LET th == threads[t]
           current_ts == Pts(th.reader.cursor)
       IN  threads' = [threads EXCEPT
                 ![t].log = IF th.log_loaded_timestamps
                            THEN Append(@, [name |-> "frame loaded at timestamp",
                                            value |-> current_ts])
                            ELSE @,
                 ![t].loaded_frames = IF th.log_loaded_timestamps
                                      THEN Append(@, Frame(th.video_path, th.reader.cursor))
                                      ELSE @,
                 ![t].loaded_ts = IF th.log_loaded_timestamps
                                  THEN Append(@, current_ts) ELSE @,
                 ![t].reader.cursor = @ + 1,
                 ![t].pc = IF StopScan(current_ts, th.last_ts) THEN "match" ELSE "scan"]
    /\ UNCHANGED <<backend, exceptThreads>>

\* lines 87-96: one iteration of the scan loop
ThPullFrame(t) ==
    /\ threads[t].pc = "scan"
    /\ threads[t].reader.cursor < NumFrames
    /\ LET th == threads[t]
           current_ts == Pts(th.reader.cursor)
       IN  threads' = [threads EXCEPT
                 ![t].log = IF th.log_loaded_timestamps
                            THEN Append(@, [name |-> "frame loaded at timestamp",
                                            value |-> current_ts])
                            ELSE @,
                 ![t].loaded_frames = Append(@, Frame(th.video_path, th.reader.cursor)),
                 ![t].loaded_ts = Append(@, current_ts),
                 ![t].reader.cursor = @ + 1,
                 ![t].pc = IF StopScan(current_ts, th.last_ts) THEN "match" ELSE "scan"]
    /\ UNCHANGED <<backend, exceptThreads>>

\* line 87: the reader has no more frames
ThEndOfStream(t) ==
    /\ threads[t].pc = "scan"
    /\ threads[t].reader.cursor >= NumFrames
    /\ threads' = [threads EXCEPT ![t].pc = "match"]
    /\ UNCHANGED <<backend, exceptThreads>>

\* lines 98-124
ThMatchFrames(t) ==
    /\ threads[t].pc = "match"
    /\ LET th == threads[t]
           m == Match(th.timestamps, th.loaded_frames, th.loaded_ts, th.tolerance_s)
       IN  threads' = [threads EXCEPT
                 ![t].outcome = m.outcome,
                 ![t].closest_frames = m.frames,
                 ![t].err = m.err,
                 ![t].log = IF th.log_loaded_timestamps /\ m.outcome = "ok"
                            THEN Append(@, [name |-> "closest_ts",
                                            value |-> [i \in 1 .. Len(m.frames) |->
                                                          Pts(m.frames[i].idx)]])
                            ELSE @,
                 ![t].pc = "done"]
    /\ UNCHANGED <<backend, exceptThreads>>

\* the caller has the frames or the exception; the call's frame is discarded
ThReturn(t) ==
    /\ threads[t].pc = "done"
    /\ threads' = [threads EXCEPT ![t] = ThIdle]
    /\ UNCHANGED <<backend, exceptThreads>>

ParCall == \E t \in Threads : ThCall(t)
ParSetBackend == \E t \in Threads : ThSetBackend(t)
ParOpenReader == \E t \in Threads : ThOpenReader(t)
ParReadFirstLast == \E t \in Threads : ThReadFirstLast(t)
ParSeek == \E t \in Threads : ThSeek(t)
ParPullFrame == \E t \in Threads : ThPullFrame(t)
ParEndOfStream == \E t \in Threads : ThEndOfStream(t)
ParMatchFrames == \E t \in Threads : ThMatchFrames(t)
ParReturn == \E t \in Threads : ThReturn(t)

ParNext ==
    \/ ParCall
    \/ ParSetBackend
    \/ ParOpenReader
    \/ ParReadFirstLast
    \/ ParSeek
    \/ ParPullFrame
    \/ ParEndOfStream
    \/ ParMatchFrames
    \/ ParReturn

SpecPar == Init /\ [][ParNext]_vars

\* --------------------------------------- the scan loop under a fair scheduler
\* cpu calls with one or two requests; the thread running the call keeps running,
\* so a step of the call that stays possible is eventually taken
ScanRequestLists == UNION {[1 .. n -> Timestamps] : n \in 1 .. 2}

ScanCall ==
    /\ pc = "idle"
    /\ lpc = "idle"
    /\ \E p \in DirectCallFiles, ts \in ScanRequestLists, tol \in Tolerances :
        /\ video_path' = p
        /\ timestamps' = ts
        /\ tolerance_s' = tol
        /\ device' = "cpu"
    /\ pc' = "set_backend"
    /\ reader' = NoReader
    /\ first_ts' = -1
    /\ last_ts' = -1
    /\ loaded_frames' = <<>>
    /\ loaded_ts' = <<>>
    /\ outcome' = "none"
    /\ closest_frames' = <<>>
    /\ err' = <<>>
    /\ UNCHANGED backend
    /\ UNCHANGED loadVars
    /\ UNCHANGED auxVars

ScanNext ==
    \/ ScanCall
    \/ SetBackend
    \/ OpenReader
    \/ ReadFirstLast
    \/ Seek
    \/ SeekFails
    \/ PullFrame
    \/ EndOfStream
    \/ MatchFrames
    \/ DecodeReturn

SpecScan ==
    /\ Init
    /\ [][ScanNext]_vars
    /\ WF_vars(PullFrame)
    /\ WF_vars(EndOfStream)
    /\ WF_vars(MatchFrames)

\* ---------------------------------------------------------------- VQBeTPolicy
\* the configurations: n_obs_steps, action_chunk_size, n_action_pred_token and
\* n_vqvae_training_steps of VQBeTConfig
Configs ==
    [n_obs_steps : 1 .. MaxObsSteps, action_chunk_size : 1 .. MaxChunk,
     n_action_pred_token : 1 .. MaxPredTokens, n_vqvae_training_steps : 0 .. MaxVqSteps]

\* the observations of the environment and the batches select_action is given:
\* any of the two observation keys may be missing
Obs == {"o1", "o2"}
Batches == UNION {{[k \in K |-> o] : o \in Obs} : K \in SUBSET ObsKeys}

\* lines 64-68: deque(maxlen=...)
QueueMaxlen(cfg, key) ==
    IF key = "action" THEN cfg.action_chunk_size ELSE cfg.n_obs_steps

\* deque.append and deque.extend of a bounded deque: the oldest element is dropped
DequeAppend(q, x, maxlen) ==
    IF Len(q) < maxlen THEN Append(q, x)
    ELSE IF maxlen = 0 THEN q
    ELSE Append(Tail(q), x)

RECURSIVE DequeExtend(_, _, _)
DequeExtend(q, xs, maxlen) ==
    IF xs = <<>> THEN q
    ELSE DequeExtend(DequeAppend(q, Head(xs), maxlen), Tail(xs), maxlen)

\* deque.pop, from the right
Pop(q) == [value |-> q[Len(q)], rest |-> SubSeq(q, 1, Len(q) - 1)]

\* line 97: deque.popleft
Popleft(q) == [value |-> Head(q), rest |-> Tail(q)]

\* populate_queues of lerobot/common/policies/utils.py, called on line 81: for
\* every key of the batch, a queue that is not full is filled with copies of the
\* observation, a full one takes the observation in place of its oldest entry
PopulateQueues(queues, batch, cfg) ==
    [k \in QueueKeys |->
        IF k \notin DOMAIN batch THEN queues[k]
        ELSE IF Len(queues[k]) # QueueMaxlen(cfg, k)
        THEN queues[k] \o [i \in 1 .. (QueueMaxlen(cfg, k) - Len(queues[k])) |-> batch[k]]
        ELSE DequeAppend(queues[k], batch[k], QueueMaxlen(cfg, k))]

\* lines 83-85: the assertions of select_action
PreconditionsHold(pol, batch) ==
    /\ pol.discretized
    /\ "observation.image" \in DOMAIN batch
    /\ "observation.state" \in DOMAIN batch

\* a refill as soon as at most one action is left
ActionQueueLow(queues) == Len(queues["action"]) <= 1

\* line 87: len(self._queues["action"]) == 0
ActionQueueEmpty(queues) == Len(queues["action"]) = 0

\* lines 89-93 and 325: the chunk of action_chunk_size actions the model predicts,
\* an action being identified by the call that predicted it and its place
Rollout(cfg, episode, callNo) ==
    [j \in 1 .. cfg.action_chunk_size |->
        [episode |-> episode, call |-> callNo, idx |-> j - 1]]

\* lines 282-284: the input validation of VQBeTModel.forward on the stacked queues
ModelInputValid(queues, batch, cfg) ==
    /\ ObsKeys \subseteq DOMAIN batch
    /\ Len(queues["observation.state"]) = cfg.n_obs_steps

\* the assertions made before the queues are populated
SelectActionChecksFirst(batch) ==
    IF ~PreconditionsHold(policy, batch)
    THEN policy' = [policy EXCEPT
             !.last = [op |-> "select_action", outcome |-> "AssertionError",
                       discretized |-> policy.discretized, queuesChanged |-> FALSE,
                       obsPopulated |-> FALSE, actionChanged |-> FALSE]]
    ELSE LET cfg == policy.config
             q1 == PopulateQueues(policy.queues, batch, cfg)
             callNo == policy.served + 1
             q2 == [q1 EXCEPT !["action"] =
                       DequeExtend(@, Rollout(cfg, policy.episode, callNo),
                                   QueueMaxlen(cfg, "action"))]
             q3 == IF ActionQueueEmpty(q1) THEN q2 ELSE q1
             p == Popleft(q3["action"])
         IN  policy' = [policy EXCEPT
                 !.queues = [q3 EXCEPT !["action"] = p.rest],
                 !.served = callNo,
                 !.invoked = IF ActionQueueEmpty(q1) THEN @ \cup {callNo} ELSE @,
                 !.last = [op |-> "select_action", outcome |-> "ok", action |-> p.value,
                           emptyAtCheck |-> Len(q1["action"]) = 0,
                           ranModel |-> ActionQueueEmpty(q1)]]

\* lines 70-98: select_action(batch)
SelectActionOn(batch) ==
    LET cfg == policy.config
        q1 == PopulateQueues(policy.queues, batch, cfg)
        callNo == policy.served + 1
    IN  IF ~PreconditionsHold(policy, batch)
        THEN policy' = [policy EXCEPT
                 !.queues = q1,
                 !.last = [op |-> "select_action", outcome |-> "AssertionError",
                           discretized |-> policy.discretized,
                           queuesChanged |-> q1 # policy.queues,
                           obsPopulated |->
                               \A k \in DOMAIN batch :
                                   /\ Len(q1[k]) = QueueMaxlen(cfg, k)
                                   /\ q1[k][Len(q1[k])] = batch[k],
                           actionChanged |-> q1["action"] # policy.queues["action"]]]
        ELSE IF ActionQueueEmpty(q1) /\ ~ModelInputValid(q1, batch, cfg)
        THEN policy' = [policy EXCEPT
                 !.queues = q1,
                 !.last = [op |-> "select_action", outcome |-> "AssertionError",
                           discretized |-> policy.discretized,
                           queuesChanged |-> q1 # policy.queues,
                           obsPopulated |-> TRUE, actionChanged |-> FALSE]]
        ELSE LET q2 == [q1 EXCEPT !["action"] =
                           DequeExtend(@, Rollout(cfg, policy.episode, callNo),
                                   QueueMaxlen(cfg, "action"))]
                 q3 == IF ActionQueueEmpty(q1) THEN q2 ELSE q1
                 p == Popleft(q3["action"])
             IN  policy' = [policy EXCEPT
                     !.queues = [q3 EXCEPT !["action"] = p.rest],
                     !.served = callNo,
                     !.invoked = IF ActionQueueEmpty(q1) THEN @ \cup {callNo} ELSE @,
                     !.last = [op |-> "select_action", outcome |-> "ok",
                               action |-> p.value,
                               emptyAtCheck |-> Len(q1["action"]) = 0,
                               ranModel |-> ActionQueueEmpty(q1)]]

SelectAction ==
    /\ policy.served < MaxCalls
    /\ \E batch \in Batches : SelectActionOn(batch)
    /\ UNCHANGED <<decodeVars, loadVars, enc, dirs, scn, threads>>

\* a reset that clears the observations only
ResetObservationsOnly ==
    /\ policy' = [policy EXCEPT
           !.queues = [EmptyQueues EXCEPT !["action"] = policy.queues["action"]],
           !.episode = 1 - @, !.served = 0, !.invoked = {},
           !.last = [op |-> "reset", outcome |-> "ok"]]
    /\ UNCHANGED <<decodeVars, loadVars, enc, dirs, scn, threads>>

\* lines 60-68: reset()
Reset ==
    /\ policy' = [policy EXCEPT
           !.queues = EmptyQueues,
           !.episode = 1 - @, !.served = 0, !.invoked = {},
           !.last = [op |-> "reset", outcome |-> "ok"]]
    /\ UNCHANGED <<decodeVars, loadVars, enc, dirs, scn, threads>>

\* freezing only after more than n_vqvae_training_steps steps
ShouldFreezeStrict(optimized_steps, n_vqvae_training_steps) ==
    optimized_steps > n_vqvae_training_steps

\* line 857: vqvae_model.optimized_steps >= n_vqvae_training_steps
ShouldFreeze(optimized_steps, n_vqvae_training_steps) ==
    optimized_steps >= n_vqvae_training_steps

\* lines 837-864: pretrain_vqvae, one RVQ training step; freezing sets discretized
\* and freeze_codebook and turns the gradients of the vq_layer off
PretrainVqvae(pol, n_vqvae_training_steps) ==
    LET steps == pol.optimized_steps + 1
        freeze == ShouldFreeze(steps, n_vqvae_training_steps)
    IN  [pol EXCEPT !.optimized_steps = steps,
                    !.discretized = IF freeze THEN TRUE ELSE @,
                    !.freeze_codebook = IF freeze THEN TRUE ELSE @]

\* line 269: the rows of select_target_actions_indices
NumTargetChunks(cfg) == cfg.n_action_pred_token + cfg.action_chunk_size - 1

\* lines 299-321: the output tokens handed to the action head.  The input holds
\* three tokens per observation step and n_action_pred_token - 1 further action
\* queries; the slice features[:, -0:] is the whole sequence.
NumActionQueryTokens(cfg) ==
    LET len_additional_action_token == cfg.n_action_pred_token - 1
        input_tokens == cfg.n_obs_steps * 3 + len_additional_action_token
    IN  cfg.n_obs_steps +
        (IF len_additional_action_token = 0 THEN input_tokens
         ELSE len_additional_action_token)

\* a forward that trains the RVQ whatever the flag says
ForwardAlwaysPretrains ==
    /\ policy' = [PretrainVqvae(policy, policy.config.n_vqvae_training_steps) EXCEPT
           !.last = [op |-> "forward", outcome |-> "ok", loss |-> "rvq",
                     discretized |-> policy.discretized,
                     targets |-> 0, tokens |-> 0]]
    /\ UNCHANGED <<decodeVars, loadVars, enc, dirs, scn, threads>>

\* lines 100-114: forward(batch)
Forward ==
    /\ IF ~policy.discretized
       THEN policy' = [PretrainVqvae(policy, policy.config.n_vqvae_training_steps) EXCEPT
                !.last = [op |-> "forward", outcome |-> "ok", loss |-> "rvq",
                          discretized |-> policy.discretized,
                          targets |-> 0, tokens |-> 0]]
       ELSE policy' = [policy EXCEPT
                !.last = [op |-> "forward",
                          outcome |-> IF NumTargetChunks(policy.config)
                                         = NumActionQueryTokens(policy.config)
                                      THEN "ok" ELSE "ShapeError",
                          loss |-> "gpt",
                          discretized |-> policy.discretized,
                          targets |-> NumTargetChunks(policy.config),
                          tokens |-> NumActionQueryTokens(policy.config)]]
    /\ UNCHANGED <<decodeVars, loadVars, enc, dirs, scn, threads>>

PolicyInit ==
    /\ DecodeInit
    /\ LoadInit
    /\ enc = EncIdle
    /\ dirs = {}
    /\ scn = ScnIdle
    /\ threads = [t \in Threads |-> ThIdle]
    /\ \E cfg \in Configs : policy = NewPolicy(cfg)

PolicyNext ==
    \/ SelectAction
    \/ Reset
    \/ Forward

SpecPolicy == PolicyInit /\ [][PolicyNext]_vars

\* ------------------------------------------------------- claims C11 to C20
\* C11 as stated: no call ends with its reader still open.
C11_ReaderReleasedOnEveryExit ==
    pc = "done" => ~reader.open

\* C11 amended: the call never closes the reader it opened: on every exit path
\* taken after the reader was opened (return, tolerance failure, failure reading
\* the first timestamp or seeking) the call ends with the reader still open.
C11_ReaderLeftOpenOnEveryExit ==
    pc = "done" => (reader.open <=> device = "cpu")

C11_Witness ==
    /\ pc = "done"
    /\ outcome = "AssertionError"
    /\ reader.open

\* C13: a call with device "cuda" ends with NotImplementedError, without having
\* selected a backend, opened a reader, sought or pulled a frame.
C13_CudaFailsImmediately ==
    /\ [](device = "cuda" =>
            /\ reader = NoReader
            /\ first_ts = -1 /\ last_ts = -1
            /\ loaded_ts = <<>> /\ loaded_frames = <<>>
            /\ closest_frames = <<>>
            /\ pc \in {"set_backend", "done"}
            /\ pc = "done" => outcome = "NotImplementedError")
    /\ [][device = "cuda" => backend' = backend]_vars

C13_Witness ==
    /\ pc = "done"
    /\ device = "cuda"
    /\ outcome = "NotImplementedError"
    /\ backend = "unset"

\* the last key frame of the stream
LastKeyFrame == SetMax({i \in FrameIdx : IsKeyFrame(i)})
OutOfBoundsCall ==
    pc = "done" /\ device = "cpu" /\ timestamps # <<>> /\ ~InBounds(timestamps[1])

C15_NearestFrameFirstOnTies ==
    (pc = "done" /\ outcome = "ok") =>
        \A i \in 1 .. Len(timestamps) :
            \E j \in 1 .. Len(loaded_ts) :
                /\ closest_frames[i] = loaded_frames[j]
                /\ \A k \in 1 .. Len(loaded_ts) :
                       Dist(timestamps[i], loaded_ts[j]) <= Dist(timestamps[i], loaded_ts[k])
                /\ \A k \in 1 .. (j - 1) :
                       Dist(timestamps[i], loaded_ts[j]) < Dist(timestamps[i], loaded_ts[k])

C15_Witness ==
    /\ pc = "done" /\ outcome = "ok"
    /\ \E i \in 1 .. Len(timestamps) :
           \E j, k \in 1 .. Len(loaded_ts) :
               /\ j < k
               /\ Dist(timestamps[i], loaded_ts[j]) = Dist(timestamps[i], loaded_ts[k])
               /\ Dist(timestamps[i], loaded_ts[j]) = MinDist(timestamps[i], loaded_ts)
               /\ closest_frames[i] = loaded_frames[j]

\* request i of the running call is the pts of a frame of the video
IsFramePts(t) == \E f \in FrameIdx : Pts(f) = t
ExactMatch(i) ==
    /\ MinDist(timestamps[i], loaded_ts) = 0
    /\ outcome = "ok" => Pts(closest_frames[i].idx) = timestamps[i]
    /\ outcome = "AssertionError" =>
           \A k \in 1 .. Len(err[1].value) : err[1].value[k] # 0

\* C16 as stated: for every request list, a request equal to the pts of a frame
\* of the video is matched at distance 0: it is not among the violations and,
\* when the call returns, its frame is the frame with that pts.
C16_ExactRequestMatchedAtZero ==
    (pc = "done" /\ loaded_ts # <<>>) =>
        \A i \in 1 .. Len(timestamps) :
            IsFramePts(timestamps[i]) => ExactMatch(i)

\* C16 amended: the same for every request list whose first element is its
\* smallest and whose last element is its largest.
C16_ExactRequestMatchedAtZeroWhenOrdered ==
    (pc = "done" /\ loaded_ts # <<>> /\ MinFirstMaxLast(timestamps)) =>
        \A i \in 1 .. Len(timestamps) :
            IsFramePts(timestamps[i]) => ExactMatch(i)

C16_Witness ==
    /\ pc = "done" /\ outcome = "ok"
    /\ Len(timestamps) = 3
    /\ timestamps[1] < timestamps[2] /\ timestamps[2] < timestamps[3]
    /\ IsFramePts(timestamps[2])
    /\ ~IsFramePts(timestamps[1])
    /\ Pts(closest_frames[2].idx) = timestamps[2]

\* C19 as stated: a load_from_videos call makes one decode call per distinct
\* (path, timestamps) group.
C19_OneDecodePerGroup ==
    lpc # "idle" =>
        \A a, b \in 1 .. Len(decodeCalls) :
            (/\ decodeCalls[a].path = decodeCalls[b].path
             /\ decodeCalls[a].timestamps = decodeCalls[b].timestamps) => a = b

\* the decode call load_from_videos makes for position j of video_frame_keys
ExpectedCall(j) ==
    LET v0 == item0[video_frame_keys[j]]
    IN  [key |-> video_frame_keys[j],
         path |-> ResolvedPath(v0.refs[1]),
         timestamps |-> RefTimestamps(v0)]

\* C19 amended: a load_from_videos call makes one decode call per key it handles
\* (and that passes the path guard), in the order of video_frame_keys, whether or
\* not an earlier key had the same path and timestamps.
C19_OneDecodePerKey ==
    /\ lpc \in {"loop", "returned"} =>
           /\ Len(decodeCalls) = keyIdx - 1
           /\ \A j \in 1 .. Len(decodeCalls) : decodeCalls[j] = ExpectedCall(j)
    /\ lpc = "raised" =>
           /\ Len(decodeCalls) \in {keyIdx - 1, keyIdx}
           /\ \A j \in 1 .. Len(decodeCalls) : decodeCalls[j] = ExpectedCall(j)
           /\ Len(decodeCalls) = keyIdx - 1 <=> lerr \in {"NotImplementedError", "IndexError"}

C19_Witness ==
    /\ lpc = "returned"
    /\ Len(decodeCalls) = 2
    /\ decodeCalls[1].path = decodeCalls[2].path
    /\ decodeCalls[1].timestamps = decodeCalls[2].timestamps

\* C20: encode_video_frames first makes sure the parent directory of the video
\* exists, whether or not it existed before, then runs the encoder exactly once;
\* a non-zero exit status makes the call fail with no second run.
C20_MkdirThenOneEncoderRun ==
    /\ enc.pc \in {"mkdir", "run"} => enc.runs = <<>> /\ enc.outcome = "none"
    /\ enc.pc \in {"run", "done"} => DirExists(dirs, Parent(enc.video_path))
    /\ enc.pc = "done" =>
           /\ enc.runs = <<FfmpegCmd(enc.imgs_dir, enc.video_path, enc.fps)>>
           /\ enc.returncode = 0 => enc.outcome = "ok"
           /\ enc.returncode # 0 => enc.outcome = "CalledProcessError"

C20_Witness ==
    /\ enc.pc = "done"
    /\ Parent(enc.video_path) \in enc.dirs0
    /\ enc.outcome = "CalledProcessError"
    /\ Len(enc.runs) = 1

\* C18: on the 30-frame video at 10 frames per second, the requests 0.05 s,
\* 1.55 s, 2.85 s with tolerance 0.06 s return three frames, each at most 0.05 s
\* from its request, and no tolerance violation, wherever the key frames are.
C18_ThirtyFrameScenarioSucceeds ==
    (/\ scn.pc = "done"
     /\ scn.timestamps = Scenario.requests
     /\ scn.tolerance_s = Scenario.tolerance) =>
        /\ scn.result.outcome = "ok"
        /\ Len(scn.result.frames) = 3
        /\ \A i \in 1 .. 3 :
               Abs(scn.timestamps[i] - VideoPts(ScenarioVideo(scn.keyint),
                                                scn.result.frames[i].idx)) <= 5

C18_Witness ==
    /\ scn.pc = "done"
    /\ scn.timestamps = Scenario.requests
    /\ scn.tolerance_s = Scenario.tolerance
    /\ scn.keyint = 250
    /\ [i \in 1 .. 3 |-> scn.result.frames[i].idx] \in {<<0, 15, 28>>, <<0, 15, 29>>}

\* the result of thread t's call and the result of the same call running alone
ThResult(t) ==
    [outcome |-> threads[t].outcome, frames |-> threads[t].closest_frames,
     err |-> threads[t].err]
Alone(t) ==
    DecodeRun(threads[t].video_path, threads[t].timestamps, threads[t].tolerance_s,
              threads[t].device, FALSE)

\* C12 as stated: no call writes the process-wide backend while another call in
\* flight has yet to read it.
C12_NoSharedBackend ==
    \A t \in Threads : threads[t].raced = {}

\* C12 amended: parallel calls do share one piece of mutable state, the
\* process-wide video backend, which every cpu call writes and then reads when it
\* opens its reader; since every call writes the same value, every reader is
\* opened under "pyav" and every call ends with the result it has running alone.
C12_SharedBackendSameResults ==
    \A t \in Threads :
        /\ threads[t].reader.open => threads[t].reader.backend = "pyav"
        /\ threads[t].pc \notin {"idle", "set_backend"} /\ threads[t].device = "cpu"
               => backend = "pyav"
        /\ threads[t].pc = "done" => ThResult(t) = Alone(t)

C12_Witness ==
    /\ threads[1].pc = "done" /\ threads[2].pc = "done"
    /\ threads[1].raced = {2}
    /\ threads[1].outcome = "ok" /\ threads[2].outcome = "AssertionError"
    /\ ThResult(1) = Alone(1) /\ ThResult(2) = Alone(2)

SameCallButLogging(a, b) ==
    /\ threads[a].pc = "done" /\ threads[b].pc = "done"
    /\ threads[a].video_path = threads[b].video_path
    /\ threads[a].timestamps = threads[b].timestamps
    /\ threads[a].tolerance_s = threads[b].tolerance_s
    /\ threads[a].device = threads[b].device
    /\ threads[a].log_loaded_timestamps /\ ~threads[b].log_loaded_timestamps

\* C17: a call with log_loaded_timestamps set and the same call without it pull
\* the same frames and end with the same returned frames or the same failure.
C17_LoggingIsObservational ==
    \A a, b \in Threads :
        SameCallButLogging(a, b) =>
            /\ threads[a].loaded_ts = threads[b].loaded_ts
            /\ threads[a].loaded_frames = threads[b].loaded_frames
            /\ threads[a].reader.cursor = threads[b].reader.cursor
            /\ ThResult(a) = ThResult(b)

C17_Witness ==
    /\ SameCallButLogging(1, 2)
    /\ threads[1].outcome = "ok"
    /\ Len(threads[1].loaded_ts) >= 2
    /\ Len(threads[1].log) = Len(threads[1].loaded_ts) + 1
    /\ threads[2].log = <<>>

\* ------------------------------------------------------- claims C21 to C30
LastSelectOk == policy.last.op = "select_action" /\ policy.last.outcome = "ok"
LastSelectFailed ==
    policy.last.op = "select_action" /\ policy.last.outcome = "AssertionError"

\* C21: a successful select_action call runs the model exactly when the action
\* queue is empty at the queue check; of the k successful calls since the last
\* reset the ones that ran the model are calls 1, 1 + c, 1 + 2c, ..., that is
\* ceil(k / c) of them, c being action_chunk_size.
C21_ModelRunsOnEmptyQueueOnly ==
    /\ policy.invoked =
           {i \in 1 .. policy.served : (i - 1) % policy.config.action_chunk_size = 0}
    /\ Cardinality(policy.invoked) * policy.config.action_chunk_size
           \in policy.served .. (policy.served + policy.config.action_chunk_size - 1)
    /\ LastSelectOk => (policy.last.ranModel <=> policy.last.emptyAtCheck)

C21_Witness ==
    /\ policy.config.action_chunk_size = 3
    /\ policy.served = 7
    /\ policy.invoked = {1, 4, 7}
    /\ LastSelectOk /\ policy.last.ranModel

\* C22: reset leaves the three queues empty; until the next successful
\* select_action call the action queue stays empty, so that call runs the model
\* and returns the first action of the chunk it predicts, never an action of the
\* episode before.
C22_ResetEmptiesQueues ==
    /\ policy.last.op = "reset" => policy.queues = EmptyQueues
    /\ policy.served = 0 => policy.queues["action"] = <<>>
    /\ \A j \in 1 .. Len(policy.queues["action"]) :
           policy.queues["action"][j].episode = policy.episode
    /\ LastSelectOk => policy.last.action.episode = policy.episode
    /\ (LastSelectOk /\ policy.served = 1) =>
           /\ policy.last.ranModel
           /\ policy.last.action = [episode |-> policy.episode, call |-> 1, idx |-> 0]

C22_Witness ==
    /\ policy.episode = 1
    /\ policy.config.n_obs_steps = 2 /\ policy.config.action_chunk_size = 3
    /\ LastSelectOk /\ policy.served = 1
    /\ policy.last.ranModel
    /\ policy.last.action = [episode |-> 1, call |-> 1, idx |-> 0]
    /\ Len(policy.queues["action"]) = 2

\* C23: a forward call made while discretized is False performs one RVQ training
\* step and returns the RVQ loss without running the GPT and the heads; a forward
\* call made once discretized is True returns the GPT/head loss and performs no
\* RVQ training step.
C23_ForwardIsTwoPhase ==
    [][policy'.last.op = "forward" =>
          IF ~policy.discretized
          THEN /\ policy'.optimized_steps = policy.optimized_steps + 1
               /\ policy'.last.loss = "rvq"
               /\ policy'.last.tokens = 0
          ELSE /\ policy'.optimized_steps = policy.optimized_steps
               /\ policy'.discretized
               /\ policy'.last.loss = "gpt"
               /\ policy'.last.tokens = NumActionQueryTokens(policy.config)]_vars

C23_Witness ==
    /\ policy.last.op = "forward"
    /\ policy.last.loss = "gpt"
    /\ policy.config.n_vqvae_training_steps = 2
    /\ policy.optimized_steps = 2

\* C24: the RVQ is frozen only once it has been updated more than
\* n_vqvae_training_steps times.
C24_FreezesAfterMoreThanNSteps ==
    policy.discretized =>
        policy.optimized_steps > policy.config.n_vqvae_training_steps

\* C27 as stated: a select_action call that fails one of its assertions leaves
\* the queues as they were.
C27_FailedCallLeavesQueues ==
    LastSelectFailed => ~policy.last.queuesChanged

\* C27 amended: a select_action call that fails one of its assertions leaves the
\* action queue as it was, but has already populated the observation queues: the
\* queue of every observation key present in the batch is full and ends with the
\* observation of the failed call.
C27_FailedCallHasPopulatedObservations ==
    LastSelectFailed =>
        /\ ~policy.last.actionChanged
        /\ policy.last.obsPopulated
        /\ policy.last.queuesChanged =>
               \E k \in ObsKeys : Len(policy.queues[k]) = policy.config.n_obs_steps

C27_Witness ==
    /\ LastSelectFailed
    /\ ~policy.last.discretized
    /\ policy.last.queuesChanged
    /\ policy.config.n_obs_steps = 2
    /\ policy.queues["observation.image"] = <<"o1", "o1">>
    /\ policy.queues["observation.state"] = <<"o1", "o1">>

\* C28: the action queue never holds more than action_chunk_size actions, and
\* the i-th successful select_action call since the last reset returns element
\* (i - 1) mod c of the chunk predicted at call i - ((i - 1) mod c); what is left
\* in the queue is the rest of that chunk, in order.
C28_ChunksConsumedInOrder ==
    LET c == policy.config.action_chunk_size
        i == policy.served
        at == (i - 1) % c
    IN  /\ Len(policy.queues["action"]) <= c
        /\ LastSelectOk =>
               /\ policy.last.action =
                      [episode |-> policy.episode, call |-> i - at, idx |-> at]
               /\ policy.queues["action"] =
                      [j \in 1 .. (c - 1 - at) |->
                          [episode |-> policy.episode, call |-> i - at, idx |-> at + j]]

C28_Witness ==
    /\ LastSelectOk
    /\ policy.config.action_chunk_size = 3
    /\ policy.served = 5
    /\ policy.last.action = [episode |-> 1, call |-> 4, idx |-> 1]
    /\ Len(policy.queues["action"]) = 1

C30_TargetsMatchQueryTokens ==
    (/\ policy.last.op = "forward" /\ policy.last.loss = "gpt"
     /\ policy.config.n_action_pred_token >= 2) =>
        policy.last.targets = policy.last.tokens

\* the timestamps of all the frames of the video, in order
AllPts == [i \in 1 .. NumFrames |-> Pts(i - 1)]

\* C25: for an ascending request list within the bounds of the stream, the
\* minimum distance of every request over the loaded window is its minimum
\* distance over all the frames of the video, and the frame returned for it is at
\* that distance.
C25_WindowHoldsNearestFrame ==
    (/\ ScanEnded
     /\ Ascending(timestamps)
     /\ \A i \in 1 .. Len(timestamps) : InBounds(timestamps[i])) =>
        \A i \in 1 .. Len(timestamps) :
            /\ MinDist(timestamps[i], loaded_ts) = MinDist(timestamps[i], AllPts)
            /\ (pc = "done" /\ outcome = "ok") =>
                   Dist(timestamps[i], Pts(closest_frames[i].idx))
                       = MinDist(timestamps[i], AllPts)

C25_Witness ==
    /\ pc = "done" /\ outcome = "ok"
    /\ Len(timestamps) = 3
    /\ timestamps[1] < timestamps[2] /\ timestamps[2] < timestamps[3]
    /\ Len(loaded_ts) < NumFrames

\* the scan of the running call ended without a frame at or after the last request
EndedAtEndOfStream ==
    /\ pc \in {"match", "done"}
    /\ loaded_ts # <<>>
    /\ loaded_ts[Len(loaded_ts)] < last_ts

\* C26: the scan loop always ends; when the stream ends before a frame at or
\* after the last request is produced, every frame from the seek point to the end
\* of the stream is loaded and the call returns if every request is within
\* tolerance of a loaded frame and fails with the tolerance error otherwise.
C26_ScanEndsAtEndOfStream ==
    /\ (pc = "scan") ~> (pc = "match")
    /\ [](EndedAtEndOfStream =>
            /\ reader.cursor = NumFrames
            /\ loaded_ts = [j \in 1 .. (NumFrames - loaded_frames[1].idx) |->
                               Pts(loaded_frames[1].idx + j - 1)]
            /\ pc = "done" =>
                   IF \A i \in 1 .. Len(timestamps) :
                          MinDist(timestamps[i], loaded_ts) < tolerance_s
                   THEN outcome = "ok" /\ Len(closest_frames) = Len(timestamps)
                   ELSE outcome = "AssertionError")

C26_Witness ==
    /\ EndedAtEndOfStream
    /\ pc = "done" /\ outcome = "ok"
    /\ InBounds(first_ts)
    /\ Len(loaded_ts) = 1

====
